---- MODULE Spec2Model ----
(***************************************************************************)
(* The STUSB4500 protocol decoder of src/pd.py: a state machine stacked on *)
(* the I2C decoder.  decode() receives one I2C packet per call and emits   *)
(* annotations through put().  The model keeps the decoder object's        *)
(* attributes as variables, and decode() with its helpers as operators on  *)
(* a record of those attributes, so that a second decoder object can be    *)
(* run beside the first.                                                   *)
(***************************************************************************)
EXTENDS Integers, Sequences, FiniteSets, TLC

\* -------------------------------------------------------------- bounds
\* Samples run from 0 to MaxTime; no packet ends later.
MaxTime == 10
\* The same, for the two-decoder specifications SpecDet and SpecBits.
MaxTimeDet == 5

\* ---------------------------------------------------- program constants
\* Python's None, as the value of self.reg after reset().
None == -1

ANN_ADDRESS == 0
ANN_REGISTER == 1
ANN_WARNING == 2
ANN_ERROR == 3

\* The register catalog.
REGs ==
    (6 :> "BCD_TYPEC_REV_LOW")
 @@ (7 :> "BCD_TYPEC_REV_HIGH")
 @@ (8 :> "BCD_USBPD_REV_LOW")
 @@ (9 :> "BCD_USBPD_REV_HIGH")
 @@ (10 :> "DEVICE_CAPAB_HIGH")
 @@ (11 :> "ALERT_STATUS_1")
 @@ (12 :> "ALERT_STATUS_1_MASK")
 @@ (13 :> "PORT_STATUS_0")
 @@ (14 :> "PORT_STATUS_1")
 @@ (15 :> "TYPEC_MONITORING_STATUS_0")
 @@ (16 :> "TYPEC_MONITORING_STATUS_1")
 @@ (17 :> "CC_STATUS")
 @@ (18 :> "CC_HW_FAULT_STATUS_0")
 @@ (19 :> "CC_HW_FAULT_STATUS_1")
 @@ (20 :> "PD_TYPEC_STATUS")
 @@ (21 :> "TYPEC_STATUS")
 @@ (22 :> "PRT_STATUS")
 @@ (26 :> "PD_COMMAND_CTRL")
 @@ (32 :> "MONITORING_CTRL_0")
 @@ (34 :> "MONITORING_CTRL_2")
 @@ (35 :> "RESET_CTRL")
 @@ (37 :> "VBUS_DISCHARGE_TIME_CTRL")
 @@ (38 :> "VBUS_DISCHARGE_CTRL")
 @@ (39 :> "VBUS_CTRL")
 @@ (41 :> "PE_FSM")
 @@ (45 :> "GPIO_SW_GPIO")
 @@ (47 :> "Device_ID")
 @@ (49 :> "RX_HEADER_LOW")
 @@ (50 :> "RX_HEADER_HIGH")
 @@ (51 :> "RX_DATA_OBJ1_0")
 @@ (52 :> "RX_DATA_OBJ1_1")
 @@ (53 :> "RX_DATA_OBJ1_2")
 @@ (54 :> "RX_DATA_OBJ1_3")
 @@ (55 :> "RX_DATA_OBJ2_0")
 @@ (56 :> "RX_DATA_OBJ2_1")
 @@ (57 :> "RX_DATA_OBJ2_2")
 @@ (58 :> "RX_DATA_OBJ2_3")
 @@ (59 :> "RX_DATA_OBJ3_0")
 @@ (60 :> "RX_DATA_OBJ3_1")
 @@ (61 :> "RX_DATA_OBJ3_2")
 @@ (62 :> "RX_DATA_OBJ3_3")
 @@ (63 :> "RX_DATA_OBJ4_0")
 @@ (64 :> "RX_DATA_OBJ4_1")
 @@ (65 :> "RX_DATA_OBJ4_2")
 @@ (66 :> "RX_DATA_OBJ4_3")
 @@ (67 :> "RX_DATA_OBJ5_0")
 @@ (68 :> "RX_DATA_OBJ5_1")
 @@ (69 :> "RX_DATA_OBJ5_2")
 @@ (70 :> "RX_DATA_OBJ5_3")
 @@ (71 :> "RX_DATA_OBJ6_0")
 @@ (72 :> "RX_DATA_OBJ6_1")
 @@ (73 :> "RX_DATA_OBJ6_2")
 @@ (74 :> "RX_DATA_OBJ6_3")
 @@ (75 :> "RX_DATA_OBJ7_0")
 @@ (76 :> "RX_DATA_OBJ7_1")
 @@ (77 :> "RX_DATA_OBJ7_2")
 @@ (78 :> "RX_DATA_OBJ7_3")
 @@ (81 :> "TX_HEADER_LOW")
 @@ (82 :> "TX_HEADER_HIGH")
 @@ (112 :> "DPM_PDO_NUMB")
 @@ (133 :> "DPM_SNK_PDO1_0")
 @@ (134 :> "DPM_SNK_PDO1_1")
 @@ (135 :> "DPM_SNK_PDO1_2")
 @@ (136 :> "DPM_SNK_PDO1_3")
 @@ (137 :> "DPM_SNK_PDO2_0")
 @@ (138 :> "DPM_SNK_PDO2_1")
 @@ (139 :> "DPM_SNK_PDO2_2")
 @@ (140 :> "DPM_SNK_PDO2_3")
 @@ (141 :> "DPM_SNK_PDO3_0")
 @@ (142 :> "DPM_SNK_PDO3_1")
 @@ (143 :> "DPM_SNK_PDO3_2")
 @@ (144 :> "DPM_SNK_PDO3_3")
 @@ (145 :> "RDO_REG_STATUS_0")
 @@ (146 :> "RDO_REG_STATUS_1")
 @@ (147 :> "RDO_REG_STATUS_2")
 @@ (148 :> "RDO_REG_STATUS_3")

\* The values of the 'address' option, as start() maps them.
AddressOptions == {40, 41, 42, 43}

\* ------------------------------------------------------------ inputs
\* Address bytes: 0x50 and 0x51 select 0x28 and differ in the low bit only,
\* 0x53 selects 0x29; a decoder set to 0x2A or 0x2B sees foreign traffic only.
AddrBytes == {80, 81, 83}
\* Data bytes: 0x15 and 0x16 are in the catalog and 0x17 is not; 0xFF is the
\* last byte value, so that a burst from it runs past 0xFF.
DataBytes == {21, 255}
\* The payloads of BITS packets: lists of [bit, ss, es].
BitsPayloads == { <<<<1, 0, 1>>>>, <<<<0, 0, 1>>, <<1, 1, 2>>>> }
\* The gap between two packets, and the lengths of a packet: START and STOP
\* are conditions and may have no width, the other packets have one.
Gaps == {0, 1}
Lens(c) == IF c \in {"START", "STOP"} THEN {0, 1} ELSE {1}

VARIABLES
    state,      \* self.state
    reg,        \* self.reg
    bits,       \* self.bits
    needACK,    \* self.needACK
    ss,         \* self.ss
    es,         \* self.es
    ss_block,   \* self.ss_block
    attrs,      \* the attributes among needACK, ss, es, ss_block that exist
    address,    \* self.address
    out,        \* the annotations put() received during the last decode()
    crashed,    \* an exception left decode()
    cmd,        \* the packet type of the last decode()
    databyte,   \* its data
    now         \* the end sample of the last packet delivered

decoderVars == <<state, reg, bits, needACK, ss, es, ss_block, attrs, address,
                 out, crashed>>

\* The decoder object as a record.
Self ==
    [state |-> state, reg |-> reg, bits |-> bits, needACK |-> needACK,
     ss |-> ss, es |-> es, ss_block |-> ss_block, attrs |-> attrs,
     address |-> address, out |-> out, crashed |-> crashed]

\* ------------------------------------------------- '%02X' % n, n >= 0
HexDigit(n) ==
    <<"0", "1", "2", "3", "4", "5", "6", "7",
      "8", "9", "A", "B", "C", "D", "E", "F">>[n + 1]

RECURSIVE Hex(_)
Hex(n) == IF n < 16 THEN HexDigit(n) ELSE Hex(n \div 16) \o HexDigit(n % 16)

Fmt02X(n) == IF n < 16 THEN "0" \o HexDigit(n) ELSE Hex(n)

\* -------------------------------------------------------- the decoder
\* An exception: it leaves decode(), and the attributes keep what was
\* assigned before it.
Raise(d) == [d EXCEPT !.crashed = TRUE]

\* srd.Decoder.put(ss, es, out_ann, data), data = [class, [texts]].
put(d, s, e, data) ==
    [d EXCEPT !.out = Append(@, [ss |-> s, es |-> e,
                                  ann |-> data[1], texts |-> data[2]])]

\* putx() with the two samples in the wrong order.
putx_swapped(d, data) ==
    IF {"ss", "es"} \subseteq d.attrs THEN put(d, d.es, d.ss, data) ELSE Raise(d)

putx(d, data) ==
    IF {"ss", "es"} \subseteq d.attrs THEN put(d, d.ss, d.es, data) ELSE Raise(d)

\* reset() without the assignment to self.reg.
reset_keeps_reg(d) ==
    [d EXCEPT !.state = "IDLE", !.bits = <<>>]

\* reset(): self.write, which nothing else reads or writes, is left out.
reset(d) ==
    [d EXCEPT !.state = "IDLE", !.reg = None, !.bits = <<>>]

\* handle_write_reg() without its last line: the pointer stays.
handle_write_reg_noinc(d, b) ==
    IF d.reg \in DOMAIN REGs
    THEN putx(d, <<ANN_REGISTER, <<"Write " \o REGs[d.reg], REGs[d.reg]>>>>)
    ELSE IF d.reg = None
    THEN Raise(d)
    ELSE putx(d, <<ANN_REGISTER,
                   <<"Write Unknown reg " \o Fmt02X(d.reg), "Unknown">>>>)

\* handle_write_reg() leaving the pointer where it is after a register that
\* is not in REGs.
handle_write_reg_skip(d, b) ==
    LET d1 == IF d.reg \in DOMAIN REGs
              THEN putx(d, <<ANN_REGISTER,
                             <<"Write " \o REGs[d.reg], REGs[d.reg]>>>>)
              ELSE IF d.reg = None
              THEN Raise(d)
              ELSE putx(d, <<ANN_REGISTER,
                             <<"Write Unknown reg " \o Fmt02X(d.reg), "Unknown">>>>)
    IN  IF d1.crashed \/ d.reg \notin DOMAIN REGs
        THEN d1 ELSE [d1 EXCEPT !.reg = @ + 1]

handle_write_reg(d, b) ==
    LET d1 == IF d.reg \in DOMAIN REGs
              THEN putx(d, <<ANN_REGISTER,
                             <<"Write " \o REGs[d.reg], REGs[d.reg]>>>>)
              ELSE IF d.reg = None
              THEN Raise(d)     \* '%02X' % None is a TypeError
              ELSE putx(d, <<ANN_REGISTER,
                             <<"Write Unknown reg " \o Fmt02X(d.reg), "Unknown">>>>)
    IN  IF d1.crashed THEN d1 ELSE [d1 EXCEPT !.reg = @ + 1]

\* handle_read_reg() with the pointer kept within a byte.
handle_read_reg_wrap(d, b) ==
    LET d1 == IF d.reg \in DOMAIN REGs
              THEN putx(d, <<ANN_REGISTER,
                             <<"Read " \o REGs[d.reg], REGs[d.reg]>>>>)
              ELSE IF d.reg = None
              THEN Raise(d)
              ELSE putx(d, <<ANN_REGISTER,
                             <<"Read Unknown reg " \o Fmt02X(d.reg), "Unknown">>>>)
    IN  IF d1.crashed THEN d1 ELSE [d1 EXCEPT !.reg = (@ + 1) % 256]

handle_read_reg(d, b) ==
    LET d1 == IF d.reg \in DOMAIN REGs
              THEN putx(d, <<ANN_REGISTER,
                             <<"Read " \o REGs[d.reg], REGs[d.reg]>>>>)
              ELSE IF d.reg = None
              THEN Raise(d)     \* '%02X' % None is a TypeError
              ELSE putx(d, <<ANN_REGISTER,
                             <<"Read Unknown reg " \o Fmt02X(d.reg), "Unknown">>>>)
    IN  IF d1.crashed THEN d1 ELSE [d1 EXCEPT !.reg = @ + 1]

\* handle_ACK() with the annotation of line 181, which is commented out.
handle_ACK_loud(d) ==
    IF "needACK" \notin d.attrs
    THEN [d |-> Raise(d), ret |-> FALSE]
    ELSE IF d.needACK = TRUE
    THEN LET d1 == putx(d, <<ANN_ERROR, <<"ACK Handled">>>>)
         IN  [d |-> IF d1.crashed THEN d1 ELSE [d1 EXCEPT !.needACK = FALSE],
              ret |-> TRUE]
    ELSE [d |-> putx(d, <<ANN_ERROR, <<"Unxpected ACK">>>>), ret |-> FALSE]

\* handle_ACK() without the assignment that clears the flag.
handle_ACK_noclear(d) ==
    IF "needACK" \notin d.attrs
    THEN [d |-> Raise(d), ret |-> FALSE]
    ELSE IF d.needACK = TRUE
    THEN [d |-> d, ret |-> TRUE]
    ELSE [d |-> putx(d, <<ANN_ERROR, <<"Unxpected ACK">>>>), ret |-> FALSE]

\* The helpers that return a value give the decoder and the value.
handle_ACK(d) ==
    IF "needACK" \notin d.attrs
    THEN [d |-> Raise(d), ret |-> FALSE]
    ELSE IF d.needACK = TRUE
    THEN [d |-> [d EXCEPT !.needACK = FALSE], ret |-> TRUE]
    ELSE [d |-> putx(d, <<ANN_ERROR, <<"Unxpected ACK">>>>), ret |-> FALSE]

\* is_correct_chip() without the shift of line 189.
is_correct_chip_noshift(d, addr) ==
    IF ~ ({"ss_block", "es"} \subseteq d.attrs)
    THEN [d |-> Raise(d), ret |-> FALSE]
    ELSE IF addr = d.address
    THEN [d |-> put(d, d.ss_block, d.es,
                    <<ANN_ADDRESS, <<"Address (slave 0x" \o Fmt02X(addr) \o ")">>>>),
          ret |-> TRUE]
    ELSE [d |-> put(d, d.ss_block, d.es,
                    <<ANN_ADDRESS,
                      <<"Ignoring wrong addr (slave 0x" \o Fmt02X(addr) \o ")">>>>),
          ret |-> FALSE]

is_correct_chip(d, addr) ==
    LET a == addr \div 2
    IN  IF ~ ({"ss_block", "es"} \subseteq d.attrs)
        THEN [d |-> Raise(d), ret |-> FALSE]
        ELSE IF a = d.address
        THEN [d |-> put(d, d.ss_block, d.es,
                        <<ANN_ADDRESS, <<"Address (slave 0x" \o Fmt02X(a) \o ")">>>>),
              ret |-> TRUE]
        ELSE [d |-> put(d, d.ss_block, d.es,
                        <<ANN_ADDRESS,
                          <<"Ignoring wrong addr (slave 0x" \o Fmt02X(a) \o ")">>>>),
              ret |-> FALSE]

\* setReg() reporting a register that is not in REGs as a warning.
setReg_warn(d, r) ==
    LET d1 == [d EXCEPT !.reg = r]
    IN  IF r \in DOMAIN REGs
        THEN putx(d1, <<ANN_REGISTER, <<"Register " \o REGs[r], REGs[r]>>>>)
        ELSE putx(d1, <<ANN_WARNING, <<"Unknown Register " \o Fmt02X(r)>>>>)

setReg(d, r) ==
    LET d1 == [d EXCEPT !.reg = r]
    IN  IF r \in DOMAIN REGs
        THEN putx(d1, <<ANN_REGISTER, <<"Register " \o REGs[r], REGs[r]>>>>)
        ELSE putx(d1, <<ANN_REGISTER, <<"Unknown Register " \o Fmt02X(r)>>>>)

\* The state 'IDLE' reporting the packets it is to ignore.
decode_IDLE_strict(d, s, c) ==
    IF c # "START"
    THEN putx(d, <<ANN_ERROR, <<"Expected START">>>>)
    ELSE [d EXCEPT !.state = "GET SLAVE ADDR", !.ss_block = s,
                   !.attrs = @ \cup {"ss_block"}]

\* decode(), the state 'IDLE'.
decode_IDLE(d, s, c) ==
    IF c # "START"
    THEN d
    ELSE [d EXCEPT !.state = "GET SLAVE ADDR", !.ss_block = s,
                   !.attrs = @ \cup {"ss_block"}]

\* The state 'GET SLAVE ADDR' without the return to 'IDLE' on a foreign
\* address.
decode_GET_SLAVE_ADDR_stay(d, c, b) ==
    IF c # "ADDRESS WRITE" /\ c # "ADDRESS READ"
    THEN LET d1 == putx(d, <<ANN_ERROR, <<"Expected READ/WRITE">>>>)
         IN  IF d1.crashed THEN d1 ELSE [d1 EXCEPT !.state = "IDLE"]
    ELSE LET r == is_correct_chip(d, b)
         IN  IF r.d.crashed THEN r.d
             ELSE IF ~ r.ret THEN r.d
             ELSE [r.d EXCEPT !.needACK = TRUE,
                              !.attrs = @ \cup {"needACK"},
                              !.state = IF c = "ADDRESS WRITE"
                                        THEN "GET REG ADDR" ELSE "READ REGS"]

\* The state 'GET SLAVE ADDR' without the assignment to needACK of line 238.
decode_GET_SLAVE_ADDR_noarm(d, c, b) ==
    IF c # "ADDRESS WRITE" /\ c # "ADDRESS READ"
    THEN LET d1 == putx(d, <<ANN_ERROR, <<"Expected READ/WRITE">>>>)
         IN  IF d1.crashed THEN d1 ELSE [d1 EXCEPT !.state = "IDLE"]
    ELSE LET r == is_correct_chip(d, b)
         IN  IF r.d.crashed THEN r.d
             ELSE IF ~ r.ret THEN [r.d EXCEPT !.state = "IDLE"]
             ELSE [r.d EXCEPT !.state = IF c = "ADDRESS WRITE"
                                        THEN "GET REG ADDR" ELSE "READ REGS"]

\* decode(), the state 'GET SLAVE ADDR'.
decode_GET_SLAVE_ADDR(d, c, b) ==
    IF c # "ADDRESS WRITE" /\ c # "ADDRESS READ"
    THEN LET d1 == putx(d, <<ANN_ERROR, <<"Expected READ/WRITE">>>>)
         IN  IF d1.crashed THEN d1 ELSE [d1 EXCEPT !.state = "IDLE"]
    ELSE LET r == is_correct_chip(d, b)
         IN  IF r.d.crashed THEN r.d
             ELSE IF ~ r.ret THEN [r.d EXCEPT !.state = "IDLE"]
             ELSE [r.d EXCEPT !.needACK = TRUE,
                              !.attrs = @ \cup {"needACK"},
                              !.state = IF c = "ADDRESS WRITE"
                                        THEN "GET REG ADDR" ELSE "READ REGS"]

\* The ACK branch without the return to 'IDLE' after an unexpected ACK.
decode_ACK_stay(d) == handle_ACK(d).d

\* decode(), the branch for an ACK that the three later states share.
decode_ACK(d) ==
    LET r == handle_ACK(d)
    IN  IF r.d.crashed THEN r.d
        ELSE IF r.ret THEN r.d
        ELSE [r.d EXCEPT !.state = "IDLE"]

\* The state 'GET REG ADDR' reporting an unexpected packet without the
\* return to 'IDLE', as the two burst states do.
decode_GET_REG_ADDR_stay(d, c, b) ==
    IF c = "ACK" THEN decode_ACK(d)
    ELSE IF c # "DATA WRITE"
    THEN putx(d, <<ANN_ERROR, <<"Expected DATA WRITE (got " \o c \o ")", "ERR">>>>)
    ELSE LET d1 == setReg(d, b)
         IN  IF d1.crashed THEN d1
             ELSE [d1 EXCEPT !.state = "WRITE REGS", !.needACK = TRUE,
                             !.attrs = @ \cup {"needACK"}]

\* decode(), the state 'GET REG ADDR'.
decode_GET_REG_ADDR(d, c, b) ==
    IF c = "ACK" THEN decode_ACK(d)
    ELSE IF c # "DATA WRITE"
    THEN LET d1 == putx(d, <<ANN_ERROR,
                             <<"Expected DATA WRITE (got " \o c \o ")", "ERR">>>>)
         IN  IF d1.crashed THEN d1 ELSE [d1 EXCEPT !.state = "IDLE"]
    ELSE LET d1 == setReg(d, b)
         IN  IF d1.crashed THEN d1
             ELSE [d1 EXCEPT !.state = "WRITE REGS", !.needACK = TRUE,
                             !.attrs = @ \cup {"needACK"}]

\* The state 'WRITE REGS' without the branch for STOP.
decode_WRITE_REGS_nostop(d, c, b) ==
    IF c = "ACK" THEN decode_ACK(d)
    ELSE IF c = "DATA WRITE"
    THEN LET d1 == handle_write_reg(d, b)
         IN  IF d1.crashed THEN d1
             ELSE [d1 EXCEPT !.needACK = TRUE, !.attrs = @ \cup {"needACK"}]
    ELSE putx(d, <<ANN_ERROR, <<"Expected DATA WRITE or STOP", "ERR">>>>)

\* decode(), the state 'WRITE REGS'.
decode_WRITE_REGS(d, c, b) ==
    IF c = "ACK" THEN decode_ACK(d)
    ELSE IF c = "DATA WRITE"
    THEN LET d1 == handle_write_reg(d, b)
         IN  IF d1.crashed THEN d1
             ELSE [d1 EXCEPT !.needACK = TRUE, !.attrs = @ \cup {"needACK"}]
    ELSE IF c = "STOP"
    THEN [d EXCEPT !.state = "IDLE"]
    ELSE putx(d, <<ANN_ERROR, <<"Expected DATA WRITE or STOP", "ERR">>>>)

\* The state 'READ REGS' without the branch for NACK.
decode_READ_REGS_nonack(d, c, b) ==
    IF c = "ACK" THEN decode_ACK(d)
    ELSE IF c = "DATA READ"
    THEN LET d1 == handle_read_reg(d, b)
         IN  IF d1.crashed THEN d1
             ELSE [d1 EXCEPT !.needACK = TRUE, !.attrs = @ \cup {"needACK"}]
    ELSE IF c = "STOP"
    THEN [d EXCEPT !.state = "IDLE"]
    ELSE putx(d, <<ANN_ERROR, <<"Expected DATA READ or STOP", "ERR">>>>)

\* The state 'READ REGS' returning to 'IDLE' on an unexpected packet, as
\* the two early states do.
decode_READ_REGS_reset(d, c, b) ==
    IF c = "ACK" THEN decode_ACK(d)
    ELSE IF c = "NACK"
    THEN [d EXCEPT !.state = "IDLE", !.needACK = FALSE,
                   !.attrs = @ \cup {"needACK"}]
    ELSE IF c = "DATA READ"
    THEN LET d1 == handle_read_reg(d, b)
         IN  IF d1.crashed THEN d1
             ELSE [d1 EXCEPT !.needACK = TRUE, !.attrs = @ \cup {"needACK"}]
    ELSE IF c = "STOP"
    THEN [d EXCEPT !.state = "IDLE"]
    ELSE [putx(d, <<ANN_ERROR, <<"Expected DATA READ or STOP", "ERR">>>>)
             EXCEPT !.state = "IDLE"]

\* decode(), the state 'READ REGS'.
decode_READ_REGS(d, c, b) ==
    IF c = "ACK" THEN decode_ACK(d)
    ELSE IF c = "NACK"
    THEN [d EXCEPT !.state = "IDLE", !.needACK = FALSE,
                   !.attrs = @ \cup {"needACK"}]
    ELSE IF c = "DATA READ"
    THEN LET d1 == handle_read_reg(d, b)
         IN  IF d1.crashed THEN d1
             ELSE [d1 EXCEPT !.needACK = TRUE, !.attrs = @ \cup {"needACK"}]
    ELSE IF c = "STOP"
    THEN [d EXCEPT !.state = "IDLE"]
    ELSE putx(d, <<ANN_ERROR, <<"Expected DATA READ or STOP", "ERR">>>>)

\* decode() with the span stored before the test for 'BITS'.
decode_bits_late(d, s, e, c, b) ==
    LET d0 == [d EXCEPT !.ss = s, !.es = e, !.attrs = @ \cup {"ss", "es"}]
    IN  IF c = "BITS"
        THEN [d0 EXCEPT !.bits = b]
        ELSE CASE d0.state = "IDLE" -> decode_IDLE(d0, s, c)
               [] d0.state = "GET SLAVE ADDR" -> decode_GET_SLAVE_ADDR(d0, c, b)
               [] d0.state = "GET REG ADDR" -> decode_GET_REG_ADDR(d0, c, b)
               [] d0.state = "WRITE REGS" -> decode_WRITE_REGS(d0, c, b)
               [] d0.state = "READ REGS" -> decode_READ_REGS(d0, c, b)
               [] OTHER -> d0

\* decode(ss, es, [cmd, databyte]).
decode(d, s, e, c, b) ==
    IF c = "BITS"
    THEN [d EXCEPT !.bits = b]
    ELSE LET d0 == [d EXCEPT !.ss = s, !.es = e, !.attrs = @ \cup {"ss", "es"}]
         IN  CASE d0.state = "IDLE" -> decode_IDLE(d0, s, c)
               [] d0.state = "GET SLAVE ADDR" -> decode_GET_SLAVE_ADDR(d0, c, b)
               [] d0.state = "GET REG ADDR" -> decode_GET_REG_ADDR(d0, c, b)
               [] d0.state = "WRITE REGS" -> decode_WRITE_REGS(d0, c, b)
               [] d0.state = "READ REGS" -> decode_READ_REGS(d0, c, b)
               [] OTHER -> d0

\* The decoder after __init__() and start(), with the option 'address' set
\* to a: reset() has run; needACK, ss, es and ss_block do not exist yet.
Fresh(a) ==
    [state |-> "IDLE", reg |-> None, bits |-> <<>>, needACK |-> FALSE,
     ss |-> 0, es |-> 0, ss_block |-> 0, attrs |-> {},
     address |-> a, out |-> <<>>, crashed |-> FALSE]

\* ------------------------------------------------------- observation
VARIABLES
    startSeen,  \* a START packet has been delivered
    annSeen,    \* an annotation has been emitted
    errSeen,    \* an Error annotation has been emitted
    pat,        \* how far the packets since the last START taken in 'IDLE'
                \* follow a write burst or a read burst
    p0,         \* write burst: the register byte R; read burst: self.reg
                \* when the address phase was entered
    n,          \* the data bytes of the burst so far
    nReg,       \* the Register annotations since that START
    err,        \* an Error annotation was emitted since that START
    plain,      \* no ACK has come between the data bytes of the burst
    mode,       \* "run"; in SpecDet "history", then "replay"; in SpecBits
                \* "bits"
    d2          \* SpecDet, SpecBits: the second decoder

obsVars == <<startSeen, annSeen, errSeen, pat, p0, n, nReg, err, plain>>
vars == <<decoderVars, cmd, databyte, now, obsVars, mode, d2>>

NumAnn(o, class) == Cardinality({i \in 1..Len(o) : o[i].ann = class})

\* The next stage of pat: d is the decoder before the packet [c, b].
\*   write burst: START, ADDRESS WRITE (match), ACK, DATA WRITE R, ACK,
\*                then data bytes, each followed by one ACK or none, STOP
\*   read burst:  START, ADDRESS READ (match), data bytes, NACK
PatNext(d, c, b) ==
    IF c = "BITS" THEN pat
    ELSE IF c = "START" /\ d.state = "IDLE" THEN "start"
    ELSE CASE pat = "start" /\ c = "ADDRESS WRITE" /\ b \div 2 = d.address -> "aw"
           [] pat = "start" /\ c = "ADDRESS READ" /\ b \div 2 = d.address -> "rd"
           [] pat = "aw" /\ c = "ACK" -> "aw_ack"
           [] pat = "aw_ack" /\ c = "DATA WRITE" -> "sel"
           [] pat = "sel" /\ c = "ACK" -> "burst"
           [] pat \in {"burst", "burst_dw"} /\ c = "DATA WRITE" -> "burst_dw"
           [] pat = "burst_dw" /\ c = "ACK" -> "burst"
           [] pat \in {"burst", "burst_dw"} /\ c = "STOP" -> "wdone"
           [] pat = "rd" /\ c = "DATA READ" -> "rd"
           [] pat = "rd" /\ c = "NACK" -> "rdone"
           [] OTHER -> "none"

\* The observation after decode() took d to r on the packet [c, b].
Observe(d, r, c, b) ==
    LET q == PatNext(d, c, b)
        fresh == q \in {"none", "start"}
    IN  /\ startSeen' = (startSeen \/ c = "START")
        /\ annSeen' = (annSeen \/ Len(r.out) > 0)
        /\ errSeen' = (errSeen \/ NumAnn(r.out, ANN_ERROR) > 0)
        /\ pat' = q
        /\ p0' = IF fresh THEN None
                 ELSE IF q = "sel" /\ c = "DATA WRITE" THEN b
                 ELSE IF q = "rd" /\ pat = "start" THEN d.reg
                 ELSE p0
        /\ n' = IF fresh THEN 0
                ELSE IF c \in {"DATA WRITE", "DATA READ"} /\ q \in {"burst_dw", "rd"}
                THEN n + 1 ELSE n
        /\ nReg' = IF fresh THEN 0 ELSE nReg + NumAnn(r.out, ANN_REGISTER)
        /\ err' = IF fresh THEN FALSE ELSE (err \/ NumAnn(r.out, ANN_ERROR) > 0)
        /\ plain' = IF fresh THEN TRUE
                    ELSE IF pat = "burst_dw" /\ c = "ACK" THEN FALSE
                    ELSE plain

\* ------------------------------------------------------------ actions
\* The decoder object takes the attributes of r.
Becomes(r) ==
    /\ state' = r.state
    /\ reg' = r.reg
    /\ bits' = r.bits
    /\ needACK' = r.needACK
    /\ ss' = r.ss
    /\ es' = r.es
    /\ ss_block' = r.ss_block
    /\ attrs' = r.attrs
    /\ address' = r.address
    /\ out' = r.out
    /\ crashed' = r.crashed

\* The decoder object has the attributes of r.
Is(r) ==
    /\ state = r.state
    /\ reg = r.reg
    /\ bits = r.bits
    /\ needACK = r.needACK
    /\ ss = r.ss
    /\ es = r.es
    /\ ss_block = r.ss_block
    /\ attrs = r.attrs
    /\ address = r.address
    /\ out = r.out
    /\ crashed = r.crashed

\* The I2C decoder delivers the packet [c, b] on the samples s..e.
Deliver(c, b, s, e) ==
    LET d == [Self EXCEPT !.out = <<>>]
        r == decode(d, s, e, c, b)
    IN  /\ mode = "run"
        /\ ~ crashed
        /\ Becomes(r)
        /\ cmd' = c
        /\ databyte' = b
        /\ Observe(d, r, c, b)
        /\ UNCHANGED <<mode, d2>>

\* The spans <<ss, es>> a packet of type c may have: it starts at or after
\* the end of the packet before it and ends strictly later, so packets come
\* in increasing time order. A BITS packet has the span of the byte after
\* it, which decode() does not read.
Spans(c) ==
    IF c = "BITS"
    THEN {<<now, now>>}
    ELSE {<<now + x[1], now + x[1] + x[2]>> :
             x \in {y \in Gaps \X Lens(c) : y[1] + y[2] >= 1}}

Start ==
    \E sp \in Spans("START") :
        /\ sp[2] <= MaxTime
        /\ now' = sp[2]
        /\ Deliver("START", None, sp[1], sp[2])

AddressWrite ==
    \E b \in AddrBytes : \E sp \in Spans("ADDRESS WRITE") :
        /\ sp[2] <= MaxTime
        /\ now' = sp[2]
        /\ Deliver("ADDRESS WRITE", b, sp[1], sp[2])

AddressRead ==
    \E b \in AddrBytes : \E sp \in Spans("ADDRESS READ") :
        /\ sp[2] <= MaxTime
        /\ now' = sp[2]
        /\ Deliver("ADDRESS READ", b, sp[1], sp[2])

DataWrite ==
    \E b \in DataBytes : \E sp \in Spans("DATA WRITE") :
        /\ sp[2] <= MaxTime
        /\ now' = sp[2]
        /\ Deliver("DATA WRITE", b, sp[1], sp[2])

DataRead ==
    \E b \in DataBytes : \E sp \in Spans("DATA READ") :
        /\ sp[2] <= MaxTime
        /\ now' = sp[2]
        /\ Deliver("DATA READ", b, sp[1], sp[2])

Ack ==
    \E sp \in Spans("ACK") :
        /\ sp[2] <= MaxTime
        /\ now' = sp[2]
        /\ Deliver("ACK", None, sp[1], sp[2])

Nack ==
    \E sp \in Spans("NACK") :
        /\ sp[2] <= MaxTime
        /\ now' = sp[2]
        /\ Deliver("NACK", None, sp[1], sp[2])

Stop ==
    \E sp \in Spans("STOP") :
        /\ sp[2] <= MaxTime
        /\ now' = sp[2]
        /\ Deliver("STOP", None, sp[1], sp[2])

Bits ==
    \E b \in BitsPayloads : \E sp \in Spans("BITS") :
        /\ now' = now
        /\ Deliver("BITS", b, sp[1], sp[2])

\* The decoder after __init__() and start(); m is the mode.
Constructed(m) ==
    /\ \E a \in AddressOptions :
          /\ Is(Fresh(a))
          /\ d2 = Fresh(a)
    /\ cmd = "none"
    /\ databyte = None
    /\ now = 0
    /\ startSeen = FALSE
    /\ annSeen = FALSE
    /\ errSeen = FALSE
    /\ pat = "none"
    /\ p0 = None
    /\ n = 0
    /\ nReg = 0
    /\ err = FALSE
    /\ plain = TRUE
    /\ mode = m

Init == Constructed("run")

Next ==
    \/ Start
    \/ AddressWrite
    \/ AddressRead
    \/ DataWrite
    \/ DataRead
    \/ Ack
    \/ Nack
    \/ Stop
    \/ Bits

Spec == Init /\ [][Next]_vars

\* ------------------------------------------- two runs of one capture
\* The packets, as [cmd, databyte].
Packets ==
    {<<c, None>> : c \in {"START", "ACK", "NACK", "STOP"}}
        \cup {<<"ADDRESS WRITE", b>> : b \in AddrBytes}
        \cup {<<"ADDRESS READ", b>> : b \in AddrBytes}
        \cup {<<"DATA WRITE", b>> : b \in DataBytes}
        \cup {<<"DATA READ", b>> : b \in DataBytes}
        \cup {<<"BITS", b>> : b \in BitsPayloads}

\* The decoder takes a packet of an earlier capture.
DetHistory ==
    \E p \in Packets : \E sp \in Spans(p[1]) :
        /\ mode = "history"
        /\ ~ crashed
        /\ sp[2] <= MaxTimeDet
        /\ Becomes(decode([Self EXCEPT !.out = <<>>], sp[1], sp[2], p[1], p[2]))
        /\ cmd' = p[1]
        /\ databyte' = p[2]
        /\ now' = sp[2]
        /\ UNCHANGED <<obsVars, mode, d2>>

\* reset() is called on the decoder for a new capture; a decoder just
\* constructed is to take the same capture.
DetReset ==
    /\ mode = "history"
    /\ Becomes([reset(Self) EXCEPT !.out = <<>>, !.crashed = FALSE])
    /\ d2' = Fresh(address)
    /\ mode' = "replay"
    /\ cmd' = "none"
    /\ databyte' = None
    /\ UNCHANGED <<obsVars, now>>

\* Both decoders take the same packet.
DetReplay ==
    \E p \in Packets : \E sp \in Spans(p[1]) :
        /\ mode = "replay"
        /\ ~ crashed /\ ~ d2.crashed
        /\ sp[2] <= MaxTimeDet
        /\ Becomes(decode([Self EXCEPT !.out = <<>>], sp[1], sp[2], p[1], p[2]))
        /\ d2' = decode([d2 EXCEPT !.out = <<>>], sp[1], sp[2], p[1], p[2])
        /\ cmd' = p[1]
        /\ databyte' = p[2]
        /\ now' = sp[2]
        /\ UNCHANGED <<obsVars, mode>>

InitDet == Constructed("history")

NextDet ==
    \/ DetHistory
    \/ DetReset
    \/ DetReplay

SpecDet == InitDet /\ [][NextDet]_vars

\* ---------------------------- one capture with and without BITS packets
\* The first decoder takes a BITS packet that the second does not get.
BitsInsert ==
    \E b \in BitsPayloads : \E sp \in Spans("BITS") :
        /\ mode = "bits"
        /\ ~ crashed
        /\ Becomes(decode([Self EXCEPT !.out = <<>>], sp[1], sp[2], "BITS", b))
        /\ cmd' = "BITS"
        /\ databyte' = b
        /\ UNCHANGED <<now, obsVars, mode, d2>>

\* Both decoders take the same packet, which is not a BITS packet.
BitsBoth ==
    \E p \in {q \in Packets : q[1] # "BITS"} : \E sp \in Spans(p[1]) :
        /\ mode = "bits"
        /\ ~ crashed /\ ~ d2.crashed
        /\ sp[2] <= MaxTimeDet
        /\ Becomes(decode([Self EXCEPT !.out = <<>>], sp[1], sp[2], p[1], p[2]))
        /\ d2' = decode([d2 EXCEPT !.out = <<>>], sp[1], sp[2], p[1], p[2])
        /\ cmd' = p[1]
        /\ databyte' = p[2]
        /\ now' = sp[2]
        /\ UNCHANGED <<obsVars, mode>>

InitBits == Constructed("bits")

NextBits ==
    \/ BitsInsert
    \/ BitsBoth

SpecBits == InitBits /\ [][NextBits]_vars

\* ------------------------------------------------------------ claims
Gated == {"GET REG ADDR", "WRITE REGS", "READ REGS"}

\* The annotation of class c with the texts x on the span of the last packet.
OnPacket(c, x) == [ss |-> ss, es |-> es, ann |-> c, texts |-> x]

Known(r) == r \in DOMAIN REGs

\* The texts the register r is to be annotated with.
SelectTexts(r) ==
    IF Known(r) THEN <<"Register " \o REGs[r], REGs[r]>>
    ELSE <<"Unknown Register " \o Fmt02X(r)>>
WriteTexts(r) ==
    IF Known(r) THEN <<"Write " \o REGs[r], REGs[r]>>
    ELSE <<"Write Unknown reg " \o Fmt02X(r), "Unknown">>
ReadTexts(r) ==
    IF Known(r) THEN <<"Read " \o REGs[r], REGs[r]>>
    ELSE <<"Read Unknown reg " \o Fmt02X(r), "Unknown">>

\* C1: no sequence of packets makes decode() abort: no exception ever
\* leaves it, a DATA READ after a matching ADDRESS READ with the register
\* pointer still unset included.
C1_NeverAborts == ~ crashed

\* C2: a write burst from Idle (START, matching ADDRESS WRITE, ACK, DATA
\* WRITE R, ACK, N DATA WRITEs, STOP) emits the select annotation for R,
\* then the write annotations for R, R+1, ..., R+N-1, each with the catalog
\* name or marked unknown, N+1 Register annotations in all, no Error
\* annotation, and ends in Idle.
C2_WriteBurst ==
    /\ (pat \in {"aw", "aw_ack", "sel", "burst", "burst_dw", "wdone"} /\ plain)
          => ~ err
    /\ (pat = "sel" /\ cmd = "DATA WRITE")
          => /\ out = <<OnPacket(ANN_REGISTER, SelectTexts(p0))>>
             /\ p0 = databyte
             /\ nReg = 1
    /\ (pat = "burst_dw" /\ plain /\ cmd = "DATA WRITE")
          => /\ out = <<OnPacket(ANN_REGISTER, WriteTexts(p0 + n - 1))>>
             /\ nReg = n + 1
    /\ (pat = "wdone" /\ plain)
          => /\ nReg = n + 1
             /\ state = "IDLE"
             /\ cmd = "STOP" => out = <<>>

\* C2's case: a burst of three bytes from 0x15 has ended: it wrote two
\* catalogued registers and then 0x17, which is not in the catalog.
C2_Witness ==
    /\ pat = "wdone" /\ plain /\ cmd = "STOP"
    /\ n = 3 /\ p0 = 21
    /\ reg = 24

\* C3: a read burst from Idle (START, matching ADDRESS READ, M DATA READs,
\* NACK) emits M Register read annotations, for the registers p, p+1, ...,
\* p+M-1 with p the pointer at the address phase, and ends in Idle.
C3_ReadBurst ==
    /\ (pat = "rd" /\ cmd = "DATA READ")
          => /\ nReg = n
             /\ Len(out) = 1
             /\ p0 # None => out = <<OnPacket(ANN_REGISTER, ReadTexts(p0 + n - 1))>>
    /\ pat = "rdone" => (nReg = n /\ state = "IDLE")

\* C4 as claimed: an ACK in a gated phase with the flag clear emits one
\* Error annotation and changes neither the phase, the pointer nor the flag.
C4_UnexpectedAckKeepsPhase ==
    [][(cmd' = "ACK" /\ state \in Gated /\ needACK = FALSE)
          => /\ out' = <<[ss |-> ss', es |-> es', ann |-> ANN_ERROR,
                          texts |-> <<"Unxpected ACK">>]>>
             /\ state' = state
             /\ reg' = reg
             /\ needACK' = needACK]_vars

\* C4 as amended: an ACK in a gated phase with the flag clear emits one
\* Error annotation, leaves the pointer and the flag as they are and puts
\* the machine in Idle; decode() does not abort.
C4_UnexpectedAckToIdle ==
    [][(cmd' = "ACK" /\ state \in Gated /\ needACK = FALSE)
          => /\ out' = <<[ss |-> ss', es |-> es', ann |-> ANN_ERROR,
                          texts |-> <<"Unxpected ACK">>]>>
             /\ state' = "IDLE"
             /\ reg' = reg
             /\ needACK' = needACK
             /\ ~ crashed']_vars

\* C4's case: an unexpected ACK has just been annotated, in a transaction
\* that had selected a register.
C4_Witness ==
    /\ cmd = "ACK"
    /\ Len(out) = 1 /\ out[1].texts = <<"Unxpected ACK">>
    /\ reg # None

\* C5: the register pointer changes in two ways only: a DATA WRITE in
\* 'GET REG ADDR' sets it to the byte, and a DATA WRITE decoded in 'WRITE
\* REGS' or a DATA READ decoded in 'READ REGS' adds exactly 1 to it, past
\* 0xFF too. Every other packet, in every state, leaves it as it is.
C5_PointerDiscipline ==
    [][IF cmd' = "DATA WRITE" /\ state = "GET REG ADDR"
         THEN reg' = databyte'
       ELSE IF \/ cmd' = "DATA WRITE" /\ state = "WRITE REGS"
               \/ cmd' = "DATA READ" /\ state = "READ REGS"
         THEN IF crashed' THEN reg' = reg ELSE reg' = reg + 1
       ELSE reg' = reg]_vars

\* C5's case: a read burst of a later transaction has taken over the
\* pointer an earlier transaction selected and has moved it past 0xFF.
C5_Witness ==
    /\ pat = "rd" /\ cmd = "DATA READ"
    /\ p0 = 255
    /\ reg = 256

\* The annotation of a foreign address byte b, from the START to the end
\* of the address packet.
IgnoredAddress(b) ==
    [ss |-> ss_block, es |-> es, ann |-> ANN_ADDRESS,
     texts |-> <<"Ignoring wrong addr (slave 0x" \o Fmt02X(b \div 2) \o ")">>]

\* C6 as claimed: an address packet for another chip emits one Address
\* annotation and no other, and the machine is in Idle after it, whatever
\* the state it arrived in.
C6_WrongAddressAnyState ==
    [][(cmd' \in {"ADDRESS WRITE", "ADDRESS READ"} /\ databyte' \div 2 # address)
          => /\ Len(out') = 1
             /\ out'[1].ann = ANN_ADDRESS
             /\ state' = "IDLE"]_vars

\* C6 as amended: an address packet for another chip that arrives in 'GET
\* SLAVE ADDR' emits one Address annotation and no other, and the machine
\* is in Idle after it, with the pointer and the flag as they were.
C6_WrongAddressAfterStart ==
    [][(/\ cmd' \in {"ADDRESS WRITE", "ADDRESS READ"}
        /\ databyte' \div 2 # address
        /\ state = "GET SLAVE ADDR")
          => /\ out' = <<IgnoredAddress(databyte)'>>
             /\ ss_block' = ss_block
             /\ state' = "IDLE"
             /\ reg' = reg
             /\ needACK' = needACK
             /\ ~ crashed']_vars

\* C6's case: a foreign address has just been annotated, after an earlier
\* transaction with this chip.
C6_Witness ==
    /\ cmd \in {"ADDRESS WRITE", "ADDRESS READ"}
    /\ databyte \div 2 # address
    /\ out = <<IgnoredAddress(databyte)>>
    /\ reg # None

\* C7: in Idle every packet but START emits nothing and changes neither the
\* state, the pointer nor the flag; so no annotation comes before the first
\* START.
C7_IdleIgnores ==
    /\ [][(state = "IDLE" /\ cmd' # "START")
             => /\ out' = <<>>
                /\ state' = "IDLE"
                /\ reg' = reg
                /\ needACK' = needACK
                /\ ("needACK" \in attrs') = ("needACK" \in attrs)
                /\ ~ crashed']_vars
    /\ [](~ startSeen => ~ annSeen)

\* C7's case: packets have been delivered, data among them, and no START.
C7_Witness ==
    /\ ~ startSeen
    /\ cmd = "DATA WRITE"
    /\ now >= 2

\* C9 as claimed: in every state a START emits no Error annotation and
\* leaves the machine waiting for the address, and the well-formed write
\* transaction after it is decoded without an Error annotation.
C9_StartResyncs ==
    /\ [][cmd' = "START"
             => (NumAnn(out', ANN_ERROR) = 0 /\ state' = "GET SLAVE ADDR")]_vars
    /\ [](pat \in {"aw", "aw_ack", "sel", "burst", "burst_dw", "wdone"} => ~ err)

\* C9 as amended: a START in Idle emits nothing and leaves the machine
\* waiting for the address, and the well-formed write transaction after it
\* (each byte followed by one ACK or none) is decoded without an Error
\* annotation and ends in Idle. A START in another state is an unexpected
\* packet there: one Error annotation, then Idle from 'GET SLAVE ADDR' and
\* 'GET REG ADDR', no change of state in 'WRITE REGS' and 'READ REGS'.
C9_StartResyncsFromIdle ==
    /\ [][cmd' = "START"
             => IF state = "IDLE"
                THEN out' = <<>> /\ state' = "GET SLAVE ADDR"
                ELSE /\ Len(out') = 1
                     /\ out'[1].ann = ANN_ERROR
                     /\ state' = IF state \in {"WRITE REGS", "READ REGS"}
                                 THEN state ELSE "IDLE"]_vars
    /\ [](pat \in {"aw", "aw_ack", "sel", "burst", "burst_dw", "wdone"} => ~ err)
    /\ [](pat = "wdone" => state = "IDLE")

\* C9's case: Error annotations were emitted, and a write transaction with
\* acknowledged data bytes after the next START in Idle has ended.
C9_Witness ==
    /\ errSeen
    /\ pat = "wdone" /\ ~ plain /\ n >= 1

\* A data byte has been taken as register select, register write or
\* register read.
ByteAccepted ==
    /\ \/ cmd' = "DATA WRITE" /\ state \in {"GET REG ADDR", "WRITE REGS"}
       \/ cmd' = "DATA READ" /\ state = "READ REGS"
    /\ NumAnn(out', ANN_REGISTER) = 1

\* C10 as claimed: a data byte is taken as register select, write or read
\* only when an ACK has cleared the flag the byte before it set.
C10_ByteNeedsAck == [][ByteAccepted => needACK = FALSE]_vars

\* C10 as amended: the flag gates the ACKs, not the bytes. An ACK is taken
\* without an annotation only when the flag is set, and it clears the flag;
\* only a data byte taken as select, write or read sets it again, so at
\* most one ACK is taken between two bytes. A byte is taken whatever the
\* flag is, and the flag is set after it.
C10_AckGating ==
    [][/\ (cmd' = "ACK" /\ state \in Gated /\ out' = <<>>)
             => (needACK = TRUE /\ needACK' = FALSE /\ state' = state)
       /\ (state \in Gated /\ needACK = FALSE /\ needACK' = TRUE)
             => ByteAccepted
       /\ ByteAccepted => needACK' = TRUE]_vars

\* C10's case: the second of two data bytes with no ACK between them has
\* been taken as a register write.
C10_Witness ==
    /\ pat = "burst_dw" /\ plain /\ n >= 2
    /\ cmd = "DATA WRITE"
    /\ Len(out) = 1 /\ out[1].ann = ANN_REGISTER

\* C8: a decoder that is reset after any history and a decoder just
\* constructed, fed the same packets, emit the same annotations (class,
\* span, texts) packet by packet and are in the same state with the same
\* pointer after each: the flag and the block start that reset() leaves
\* behind reach no annotation and no transition.
C8_SameAfterReset ==
    mode = "replay"
        => /\ out = d2.out
           /\ state = d2.state
           /\ reg = d2.reg
           /\ crashed = d2.crashed

\* C8's case: the reset decoder still holds the flag of its earlier
\* capture, set, which the constructed one never had, and both have just
\* annotated an address from the START of the new capture.
C8_Witness ==
    /\ mode = "replay"
    /\ Len(out) = 1 /\ out[1].ann = ANN_ADDRESS
    /\ "needACK" \in attrs /\ needACK = TRUE
    /\ "needACK" \notin d2.attrs

\* The annotation of class c with the texts x on the span of the packet
\* that a step delivers.
OnNextPacket(c, x) == [ss |-> ss', es |-> es', ann |-> c, texts |-> x]

\* A step delivers a packet that the early state it arrives in does not
\* expect: in 'GET SLAVE ADDR' none but the two address packets, in 'GET
\* REG ADDR' none but DATA WRITE and ACK.
EarlyUnexpected ==
    \/ state = "GET SLAVE ADDR" /\ cmd' \notin {"ADDRESS WRITE", "ADDRESS READ"}
    \/ state = "GET REG ADDR" /\ cmd' \notin {"DATA WRITE", "ACK"}

\* C11 as claimed: every packet that 'GET SLAVE ADDR' or 'GET REG ADDR'
\* does not expect emits exactly one Error annotation and puts the machine
\* in Idle, with the pointer as it was.
C11_EarlyDesyncResets ==
    [][EarlyUnexpected
          => /\ Len(out') = 1
             /\ out'[1].ann = ANN_ERROR
             /\ state' = "IDLE"
             /\ reg' = reg]_vars

\* C11 as amended: every packet but BITS that 'GET SLAVE ADDR' or 'GET REG
\* ADDR' does not expect emits exactly one Error annotation, on the span of
\* the packet, and puts the machine in Idle, with the pointer as it was.
C11_EarlyDesyncResetsButBits ==
    [][(EarlyUnexpected /\ cmd' # "BITS")
          => /\ out' = <<OnNextPacket(ANN_ERROR,
                            IF state = "GET SLAVE ADDR"
                            THEN <<"Expected READ/WRITE">>
                            ELSE <<"Expected DATA WRITE (got " \o cmd' \o ")",
                                   "ERR">>)>>
             /\ state' = "IDLE"
             /\ reg' = reg
             /\ ~ crashed']_vars

\* C11's case: a NACK has come where the register byte was due, in a
\* transaction after one that had set the pointer.
C11_Witness ==
    /\ cmd = "NACK"
    /\ out = <<OnPacket(ANN_ERROR, <<"Expected DATA WRITE (got NACK)", "ERR">>)>>
    /\ state = "IDLE"
    /\ reg # None

\* A step delivers a packet that the burst state it arrives in does not
\* expect.
BurstUnexpected ==
    \/ state = "WRITE REGS" /\ cmd' \notin {"DATA WRITE", "STOP", "ACK"}
    \/ state = "READ REGS" /\ cmd' \notin {"DATA READ", "NACK", "STOP", "ACK"}

\* C12 as claimed: every packet that 'WRITE REGS' or 'READ REGS' does not
\* expect emits exactly one Error annotation and changes neither the state,
\* the pointer nor the flag.
C12_BurstDesyncStays ==
    [][BurstUnexpected
          => /\ Len(out') = 1
             /\ out'[1].ann = ANN_ERROR
             /\ state' = state
             /\ reg' = reg
             /\ needACK' = needACK]_vars

\* C12 as amended: every packet but BITS that 'WRITE REGS' or 'READ REGS'
\* does not expect emits exactly one Error annotation, on the span of the
\* packet, and changes neither the state, the pointer nor the flag.
C12_BurstDesyncStaysButBits ==
    [][(BurstUnexpected /\ cmd' # "BITS")
          => /\ out' = <<OnNextPacket(ANN_ERROR,
                            IF state = "WRITE REGS"
                            THEN <<"Expected DATA WRITE or STOP", "ERR">>
                            ELSE <<"Expected DATA READ or STOP", "ERR">>)>>
             /\ state' = state
             /\ reg' = reg
             /\ needACK' = needACK
             /\ ~ crashed']_vars

\* C12's case: a START has come in the middle of a read burst, and the
\* machine is still reading.
C12_Witness ==
    /\ cmd = "START"
    /\ state = "READ REGS"
    /\ out = <<OnPacket(ANN_ERROR, <<"Expected DATA READ or STOP", "ERR">>)>>

\* C13: in 'GET SLAVE ADDR' an address packet whose value shifted right by
\* one bit is the configured address emits exactly one Address annotation,
\* from the START to the end of the packet, sets the flag, leaves the
\* pointer, and moves to 'GET REG ADDR' on a write address and to 'READ
\* REGS' on a read address.
C13_AddressMatch ==
    [][(/\ state = "GET SLAVE ADDR"
        /\ cmd' \in {"ADDRESS WRITE", "ADDRESS READ"}
        /\ databyte' \div 2 = address)
          => /\ out' = <<[ss |-> ss_block, es |-> es', ann |-> ANN_ADDRESS,
                          texts |-> <<"Address (slave 0x" \o Fmt02X(address)
                                        \o ")">>]>>
             /\ "needACK" \in attrs' /\ needACK' = TRUE
             /\ reg' = reg
             /\ state' = IF cmd' = "ADDRESS WRITE"
                         THEN "GET REG ADDR" ELSE "READ REGS"
             /\ ~ crashed']_vars

\* C13's case: the write address 0x51, whose low bit is set, has matched
\* the address 0x28, in a transaction after one that had set the pointer.
C13_Witness ==
    /\ cmd = "ADDRESS WRITE" /\ databyte = 81
    /\ address = 40
    /\ state = "GET REG ADDR"
    /\ needACK = TRUE
    /\ reg # None

\* C14: a NACK or a STOP in 'READ REGS' and a STOP in 'WRITE REGS' put the
\* machine in Idle and emit no annotation, whatever the flag is.
C14_CleanTermination ==
    [][(\/ state = "READ REGS" /\ cmd' \in {"NACK", "STOP"}
        \/ state = "WRITE REGS" /\ cmd' = "STOP")
          => /\ state' = "IDLE"
             /\ out' = <<>>
             /\ ~ crashed']_vars

\* C14's case: a NACK has ended a read burst right after a data byte, the
\* flag still set when it came.
C14_Witness ==
    /\ pat = "rdone" /\ n >= 1
    /\ cmd = "NACK"
    /\ state = "IDLE"
    /\ out = <<>>

\* C15: an ACK in a gated state with the flag set clears the flag, emits
\* no annotation, and leaves the state and the pointer as they were.
C15_ExpectedAck ==
    [][(cmd' = "ACK" /\ state \in Gated /\ needACK = TRUE)
          => /\ needACK' = FALSE
             /\ out' = <<>>
             /\ state' = state
             /\ reg' = reg
             /\ ~ crashed']_vars

\* C15's case: an ACK has just been taken in a burst, after a data byte.
C15_Witness ==
    /\ cmd = "ACK"
    /\ state \in {"WRITE REGS", "READ REGS"}
    /\ needACK = FALSE
    /\ out = <<>>
    /\ reg # None

\* C16: a BITS packet, in every state, replaces the cached bits, emits no
\* annotation, and leaves the state, the pointer, the flag and the stored
\* spans as they were; and a decoder that is given BITS packets anywhere
\* in a capture emits, packet by packet, the annotations of a decoder that
\* is given the capture without them, and is in the same state with the
\* same pointer.
C16_BitsCachedOnly ==
    /\ [][cmd' = "BITS"
             => /\ bits' = databyte'
                /\ out' = <<>>
                /\ state' = state
                /\ reg' = reg
                /\ needACK' = needACK
                /\ ss' = ss /\ es' = es /\ ss_block' = ss_block
                /\ attrs' = attrs
                /\ ~ crashed']_vars
    /\ [](mode = "bits"
             => /\ cmd # "BITS" => out = d2.out
                /\ state = d2.state
                /\ reg = d2.reg
                /\ crashed = d2.crashed)

\* C16's case: a register write has been annotated by a decoder that has
\* BITS packets cached and by one that never got any.
C16_Witness ==
    /\ mode = "bits"
    /\ bits \in BitsPayloads /\ d2.bits = <<>>
    /\ cmd = "DATA WRITE"
    /\ state = "WRITE REGS"
    /\ Len(out) = 1 /\ out[1].ann = ANN_REGISTER

\* C17 as claimed: every annotation has its start sample strictly before
\* its end sample.
C17_SpansPositive ==
    \A i \in 1..Len(out) : out[i].ss < out[i].es

\* C17 as amended: no annotation has its end before its start. An Address
\* annotation runs from the sample of the START to the end of the address
\* packet, every other annotation has the span of the packet it is emitted
\* for; so an annotation has a length whenever its packet has one, and an
\* Error annotation for a START or STOP that has none has none.
C17_SpansNotInverted ==
    \A i \in 1..Len(out) :
        /\ out[i].ss <= out[i].es
        /\ ss < es => out[i].ss < out[i].es
        /\ out[i].es = es
        /\ out[i].ss = IF out[i].ann = ANN_ADDRESS THEN ss_block ELSE ss
        /\ out[i].ss = out[i].es
              => (out[i].ann = ANN_ERROR /\ cmd \in {"START", "STOP"})

\* C17's case: a STOP with no width has come where the address was due,
\* later than the START, and has been annotated as an error.
C17_Witness ==
    /\ cmd = "STOP"
    /\ Len(out) = 1
    /\ out[1].ann = ANN_ERROR
    /\ out[1].ss = out[1].es
    /\ ss_block < ss

\* What a register byte leaves behind, whether the register is in the
\* catalog or not: the state s, the pointer r, and the acknowledgement of
\* the byte awaited.
AfterRegisterByte(s, r) ==
    /\ state' = s
    /\ reg' = r
    /\ needACK' = TRUE
    /\ "needACK" \in attrs'
    /\ ~ crashed'

\* C18: a register that is not in the catalog does not disturb decoding.
\* The byte that selects it, writes it or reads it emits exactly one
\* annotation, of class Register and marked unknown, and the state, the
\* pointer (the selected address, or one more than it was) and the
\* acknowledgement flag after it are those a catalogued register leaves.
C18_UnknownRegister ==
    [][/\ (cmd' = "DATA WRITE" /\ state = "GET REG ADDR")
             => /\ out' = <<OnNextPacket(ANN_REGISTER, SelectTexts(databyte'))>>
                /\ ~ Known(databyte')
                      => out'[1].texts =
                            <<"Unknown Register " \o Fmt02X(databyte')>>
                /\ AfterRegisterByte("WRITE REGS", databyte')
       /\ (cmd' = "DATA WRITE" /\ state = "WRITE REGS" /\ reg # None)
             => /\ out' = <<OnNextPacket(ANN_REGISTER, WriteTexts(reg))>>
                /\ ~ Known(reg)
                      => out'[1].texts =
                            <<"Write Unknown reg " \o Fmt02X(reg), "Unknown">>
                /\ AfterRegisterByte("WRITE REGS", reg + 1)
       /\ (cmd' = "DATA READ" /\ state = "READ REGS" /\ reg # None)
             => /\ out' = <<OnNextPacket(ANN_REGISTER, ReadTexts(reg))>>
                /\ ~ Known(reg)
                      => out'[1].texts =
                            <<"Read Unknown reg " \o Fmt02X(reg), "Unknown">>
                /\ AfterRegisterByte("READ REGS", reg + 1)]_vars

\* C18's case: a write burst has written the register 0xFF, which is not
\* in the catalog, and the pointer has moved on to 0x100.
C18_Witness ==
    /\ cmd = "DATA WRITE"
    /\ state = "WRITE REGS"
    /\ out = <<OnPacket(ANN_REGISTER, <<"Write Unknown reg FF", "Unknown">>)>>
    /\ reg = 256
    /\ needACK

\* C19: the flag needACK, which reset() does not create, exists in every
\* state in which handle_ACK() may read it ('GET REG ADDR', 'WRITE REGS',
\* 'READ REGS'), and the pointer is set (not None) in 'WRITE REGS'; so the
\* only exception decode() ever raises is that of a DATA READ with the
\* pointer unset, which reads no attribute that is missing.
C19_FlagWrittenBeforeRead ==
    /\ state \in Gated => "needACK" \in attrs
    /\ state = "WRITE REGS" => reg # None
    /\ crashed => (state = "READ REGS" /\ reg = None /\ cmd = "DATA READ")

\* C19's case: in 'WRITE REGS', with the pointer at 0xFF, an ACK has come
\* and handle_ACK() has read the flag and cleared it.
C19_Witness ==
    /\ state = "WRITE REGS"
    /\ cmd = "ACK"
    /\ "needACK" \in attrs
    /\ needACK = FALSE
    /\ reg = 255
    /\ out = <<>>

\* C20: a call of decode() emits at most one annotation, whatever the state
\* and the packet, and every annotation is of class Address, Register or
\* Error: none is of class Warning.
C20_OneAnnotationNoWarning ==
    /\ Len(out) <= 1
    /\ \A i \in 1..Len(out) :
          out[i].ann \in {ANN_ADDRESS, ANN_REGISTER, ANN_ERROR}
    /\ \A i \in 1..Len(out) : out[i].ann # ANN_WARNING

\* C20's case: an address packet for another chip has been annotated, in a
\* run that had already emitted Register and Error annotations.
C20_Witness ==
    /\ cmd \in {"ADDRESS WRITE", "ADDRESS READ"}
    /\ Len(out) = 1
    /\ out[1].ann = ANN_ADDRESS
    /\ errSeen
    /\ reg # None

====
